---- MODULE Spec2Model ----
(***************************************************************************)
(* A model of alloc-pool: the lock-free free list of PoolHead (an          *)
(* intrusive Treiber stack of Entry nodes), Pool::lend, the Unique/Shared  *)
(* handles built on Inner, Inner::drop (push or discard) and               *)
(* PoolHead::drop (teardown).  Every atomic load, store and                *)
(* compare_exchange of the source is one step of one thread; the plain     *)
(* reads and writes of Entry.next are steps of their own where another     *)
(* thread can observe them.                                                *)
(***************************************************************************)
EXTENDS Integers, FiniteSets, Sequences, Bags, TLC

\* ---- bounds of the model ----
NThreads   == 2     \* threads using the pool
MaxEntries == 2     \* Entries built over a run (Box::new reuses no address)
MaxInners  == 2     \* Inner objects alive at once
MaxLends   == 4     \* calls of Pool::lend over a run of LiveSpec
MaxPools   == 2     \* Pool objects (clones) alive at once
MaxClones  == 2     \* Shared handles of one Inner alive at once
MaxVal     == 1     \* values of T are 0..MaxVal
MaxLen     == 3     \* length of the Vec<u8> a BytesMut is frozen with
MaxByte    == 1     \* bytes are 0..MaxByte
MaxCap     == 2     \* capacity of a pooled Vec<u8>

NULL    == 0        \* ptr::null_mut()
Threads == 1..NThreads
Ent     == 1..MaxEntries
Ptr     == Ent \cup {NULL}
Vals    == 0..MaxVal
\* the PoolHead of Pool::new and the private PoolHead of Inner::new_detached
Heads   == {"pool", "priv"}

VARIABLES
    head,         \* PoolHead.head: AtomicPtr<Entry<T>>, per PoolHead
    is_detached,  \* PoolHead.is_detached: AtomicBool, per PoolHead
    strong,       \* strong count of the Arc<PoolHead<T>>, per PoolHead
    hstate,       \* allocation of the PoolHead: none, live, dropping, freed
    teardowns,    \* history: runs of PoolHead::drop begun, per PoolHead
    pools,        \* number of Pool objects alive (all clones of one Pool)
    mem,          \* allocation of each Entry: unalloc, live, freed
    value,        \* Entry.value
    next,         \* Entry.next
    drops,        \* history: times the value of each Entry was dropped
    inner,        \* the bag of Inner objects alive: entry, pool_head, rc (0 Unique, n Shared)
    pc,           \* position of each thread
    ptr,          \* lend: entry_ptr; Inner::drop: head; PoolHead::drop: entry_ptr
    nxt,          \* lend: next_head
    box,          \* Inner::drop: entry_box
    ph,           \* the PoolHead an Inner::drop / PoolHead::drop runs on
    lends,        \* history: calls of Pool::lend begun
    last_push,    \* history: <<entry, value>> of the last push, until a lend returns
    vec,          \* bytes: the Vec<u8> of a BytesMut that is frozen
    range,        \* bytes: the range passed to BytesMut::freeze_range
    bytes,        \* bytes: the Bytes that freeze / freeze_range returned, or the panic
    copy,         \* bytes: a clone of that Bytes
    read          \* bytes: what Bytes::as_ref returned, or the panic

vars == <<head, is_detached, strong, hstate, teardowns, pools, mem, value, next,
          drops, inner, pc, ptr, nxt, box, ph>>

\* the variables of the bytes layer, and all variables
bview == <<vec, range, bytes, copy, read>>
allvars == <<vars, lends, last_push, bview>>

\* An Inner: its Entry, its PoolHead, and the count of the Arc<Inner> that a
\* Shared wraps it in (0 while a Unique holds it).
Inner(e, h, n) == [entry |-> e, pool_head |-> h, rc |-> n]
Put(i)  == inner (+) SetToBag({i})
Take(i) == inner (-) SetToBag({i})
Alive   == BagToSet(inner)

Min(S) == CHOOSE x \in S : \A y \in S : x <= y

Unalloc   == {e \in Ent : mem[e] = "unalloc"}
LendPcs   == {"lend_loop", "lend_cas", "lend_own"}
InLend    == {t \in Threads : pc[t] \in LendPcs}

\* Room for one more Inner (and, for a new Entry, one more allocation).
CanHold == BagCardinality(inner) < MaxInners
CanMake == Unalloc # {} /\ CanHold

\* no Bytes yet
NoBytes == [st |-> "none"]
NoRead  == [st |-> "none"]
Unbounded == [kind |-> "Unbounded"]

\* Pool::new
PoolInit ==
    /\ head = [h \in Heads |-> NULL]
    /\ is_detached = [h \in Heads |-> FALSE]
    /\ strong = [h \in Heads |-> IF h = "pool" THEN 1 ELSE 0]
    /\ hstate = [h \in Heads |-> IF h = "pool" THEN "live" ELSE "none"]
    /\ teardowns = [h \in Heads |-> 0]
    /\ pools = 1
    /\ mem = [e \in Ent |-> "unalloc"]
    /\ value = [e \in Ent |-> Min(Vals)]
    /\ next = [e \in Ent |-> NULL]
    /\ drops = [e \in Ent |-> 0]
    /\ inner = EmptyBag
    /\ pc = [t \in Threads |-> "idle"]
    /\ ptr = [t \in Threads |-> NULL]
    /\ nxt = [t \in Threads |-> NULL]
    /\ box = [t \in Threads |-> NULL]
    /\ ph = [t \in Threads |-> "pool"]
    /\ lends = 0
    /\ last_push = <<NULL, Min(Vals)>>

\* a pool and no BytesMut being frozen
Init ==
    /\ PoolInit
    /\ vec = <<>>
    /\ range = [start |-> Unbounded, end |-> Unbounded]
    /\ bytes = NoBytes
    /\ copy = NoBytes
    /\ read = NoRead

\* Thread t goes back to idle with its locals cleared.
Return(t) ==
    /\ pc' = [pc EXCEPT ![t] = "idle"]
    /\ ptr' = [ptr EXCEPT ![t] = NULL]
    /\ nxt' = [nxt EXCEPT ![t] = NULL]
    /\ box' = [box EXCEPT ![t] = NULL]
    /\ ph' = [ph EXCEPT ![t] = "pool"]

\* Drop of one Arc<PoolHead>: the count goes down by one, and the thread that
\* takes it to zero runs PoolHead::drop.
ReleaseArc(t, h) ==
    /\ strong' = [strong EXCEPT ![h] = strong[h] - 1]
    /\ IF strong[h] = 1
       THEN /\ pc' = [pc EXCEPT ![t] = "td_start"]
            /\ ph' = [ph EXCEPT ![t] = h]
            /\ ptr' = [ptr EXCEPT ![t] = NULL]
            /\ nxt' = [nxt EXCEPT ![t] = NULL]
            /\ box' = [box EXCEPT ![t] = NULL]
       ELSE Return(t)

\* mutant of PoolClone: the clone starts with an empty free list of its own
PoolClone_OwnList(t) ==
    /\ pc[t] = "idle"
    /\ pools > 0
    /\ pools < MaxPools
    /\ pools' = pools + 1
    /\ head' = [head EXCEPT !["pool"] = NULL]
    /\ strong' = [strong EXCEPT !["pool"] = strong["pool"] + 1]
    /\ UNCHANGED <<is_detached, hstate, teardowns, mem, value, next, drops,
                   inner, pc, ptr, nxt, box, ph>>
    /\ UNCHANGED <<lends, last_push>>
    /\ UNCHANGED bview

\* Pool::clone
PoolClone(t) ==
    /\ pc[t] = "idle"
    /\ pools > 0
    /\ pools < MaxPools
    /\ pools' = pools + 1
    /\ strong' = [strong EXCEPT !["pool"] = strong["pool"] + 1]
    /\ UNCHANGED <<head, is_detached, hstate, teardowns, mem, value, next, drops,
                   inner, pc, ptr, nxt, box, ph>>
    /\ UNCHANGED <<lends, last_push>>
    /\ UNCHANGED bview

\* mutant of PoolDrop: the drop of the last Pool object runs the teardown
\* whatever references the handles hold
PoolDrop_TearsDown(t) ==
    /\ UNCHANGED bview
    /\ pc[t] = "idle"
    /\ pools > 0
    /\ pools >= 2 \/ InLend = {}
    /\ pools' = pools - 1
    /\ strong' = [strong EXCEPT !["pool"] = strong["pool"] - 1]
    /\ IF pools = 1
       THEN /\ pc' = [pc EXCEPT ![t] = "td_start"]
            /\ UNCHANGED <<ph, ptr, nxt, box>>
       ELSE Return(t)
    /\ UNCHANGED <<head, is_detached, hstate, teardowns, mem, value, next, drops,
                   inner>>
    /\ UNCHANGED <<lends, last_push>>

\* drop of a Pool object; a Pool borrowed by a lend under way is not dropped
PoolDrop(t) ==
    /\ pc[t] = "idle"
    /\ pools > 0
    /\ pools >= 2 \/ InLend = {}
    /\ pools' = pools - 1
    /\ ReleaseArc(t, "pool")
    /\ UNCHANGED <<head, is_detached, hstate, teardowns, mem, value, next, drops,
                   inner>>
    /\ UNCHANGED <<lends, last_push>>
    /\ UNCHANGED bview

\* Pool::lend, the load of head before the loop
LendStart(t) ==
    /\ pc[t] = "idle"
    /\ pools > 0
    /\ ptr' = [ptr EXCEPT ![t] = head["pool"]]
    /\ pc' = [pc EXCEPT ![t] = "lend_loop"]
    /\ UNCHANGED <<head, is_detached, strong, hstate, teardowns, pools, mem, value,
                   next, drops, inner, nxt, box, ph>>
    /\ UNCHANGED <<lends, last_push>>
    /\ UNCHANGED bview

\* Pool::lend as LendStart, counted: each thread set starts finitely many lends
LendStartCounted(t) ==
    /\ pc[t] = "idle"
    /\ pools > 0
    /\ lends < MaxLends
    /\ lends' = lends + 1
    /\ ptr' = [ptr EXCEPT ![t] = head["pool"]]
    /\ pc' = [pc EXCEPT ![t] = "lend_loop"]
    /\ UNCHANGED <<head, is_detached, strong, hstate, teardowns, pools, mem, value,
                   next, drops, inner, nxt, box, ph, last_push>>
    /\ UNCHANGED bview

\* Pool::lend, Some(entry_ptr): the plain read of entry_ptr.next
LendRead(t) ==
    /\ pc[t] = "lend_loop"
    /\ ptr[t] # NULL
    /\ nxt' = [nxt EXCEPT ![t] = next[ptr[t]]]
    /\ pc' = [pc EXCEPT ![t] = "lend_cas"]
    /\ UNCHANGED <<head, is_detached, strong, hstate, teardowns, pools, mem, value,
                   next, drops, inner, ptr, box, ph>>
    /\ UNCHANGED <<lends, last_push>>
    /\ UNCHANGED bview

\* mutant of LendCas: a failed CAS keeps the stale entry_ptr
LendCas_KeepsStale(t) ==
    /\ pc[t] = "lend_cas"
    /\ IF head["pool"] = ptr[t]
       THEN /\ head' = [head EXCEPT !["pool"] = nxt[t]]
            /\ pc' = [pc EXCEPT ![t] = "lend_own"]
            /\ ptr' = ptr
       ELSE /\ head' = head
            /\ pc' = [pc EXCEPT ![t] = "lend_loop"]
            /\ ptr' = ptr
    /\ nxt' = [nxt EXCEPT ![t] = NULL]
    /\ UNCHANGED <<is_detached, strong, hstate, teardowns, pools, mem, value, next,
                   drops, inner, box, ph, lends, last_push>>
    /\ UNCHANGED bview

\* Pool::lend, the compare_exchange of head from entry_ptr to next_head
LendCas(t) ==
    /\ pc[t] = "lend_cas"
    /\ IF head["pool"] = ptr[t]
       THEN /\ head' = [head EXCEPT !["pool"] = nxt[t]]
            /\ pc' = [pc EXCEPT ![t] = "lend_own"]
            /\ UNCHANGED ptr
       ELSE /\ ptr' = [ptr EXCEPT ![t] = head["pool"]]
            /\ pc' = [pc EXCEPT ![t] = "lend_loop"]
            /\ UNCHANGED head
    /\ nxt' = [nxt EXCEPT ![t] = NULL]
    /\ UNCHANGED <<is_detached, strong, hstate, teardowns, pools, mem, value, next,
                   drops, inner, box, ph>>
    /\ UNCHANGED <<lends, last_push>>
    /\ UNCHANGED bview

\* mutant of LendOwn: the recycled value is reset before it is handed out
LendOwn_ResetsValue(t) ==
    /\ pc[t] = "lend_own"
    /\ CanHold
    /\ next' = [next EXCEPT ![ptr[t]] = NULL]
    /\ value' = [value EXCEPT ![ptr[t]] = Min(Vals)]
    /\ inner' = Put(Inner(ptr[t], "pool", 0))
    /\ strong' = [strong EXCEPT !["pool"] = strong["pool"] + 1]
    /\ Return(t)
    /\ last_push' = <<NULL, Min(Vals)>>
    /\ UNCHANGED <<head, is_detached, hstate, teardowns, pools, mem, drops, lends>>
    /\ UNCHANGED bview

\* mutant of LendOwn: the Inner is built without cloning the Arc<PoolHead>
LendOwn_NoArcClone(t) ==
    /\ pc[t] = "lend_own"
    /\ CanHold
    /\ next' = [next EXCEPT ![ptr[t]] = NULL]
    /\ inner' = Put(Inner(ptr[t], "pool", 0))
    /\ Return(t)
    /\ last_push' = <<NULL, Min(Vals)>>
    /\ UNCHANGED <<head, is_detached, strong, hstate, teardowns, pools, mem, value,
                   drops, lends>>
    /\ UNCHANGED bview

\* Pool::lend, Ok(..): Box::from_raw, entry.next = None, the Unique returned
LendOwn(t) ==
    /\ pc[t] = "lend_own"
    /\ CanHold
    /\ next' = [next EXCEPT ![ptr[t]] = NULL]
    /\ inner' = Put(Inner(ptr[t], "pool", 0))
    /\ strong' = [strong EXCEPT !["pool"] = strong["pool"] + 1]
    /\ Return(t)
    /\ UNCHANGED <<head, is_detached, hstate, teardowns, pools, mem, value, drops>>
    /\ last_push' = <<NULL, Min(Vals)>>
    /\ UNCHANGED lends
    /\ UNCHANGED bview

\* mutant of LendMake: the Inner is built without cloning the Arc<PoolHead>
LendMake_NoArcClone(t, v) ==
    /\ pc[t] = "lend_loop"
    /\ ptr[t] = NULL
    /\ CanMake
    /\ LET e == Min(Unalloc) IN
        /\ mem' = [mem EXCEPT ![e] = "live"]
        /\ value' = [value EXCEPT ![e] = v]
        /\ next' = [next EXCEPT ![e] = NULL]
        /\ inner' = Put(Inner(e, "pool", 0))
    /\ Return(t)
    /\ last_push' = <<NULL, Min(Vals)>>
    /\ UNCHANGED <<head, is_detached, strong, hstate, teardowns, pools, drops, lends>>
    /\ UNCHANGED bview

\* mutant of LendMake: the factory also runs when a pop is still to be tried
LendMake_Eager(t, v) ==
    /\ pc[t] = "lend_loop"
    /\ CanMake
    /\ LET e == Min(Unalloc) IN
        /\ mem' = [mem EXCEPT ![e] = "live"]
        /\ value' = [value EXCEPT ![e] = v]
        /\ next' = [next EXCEPT ![e] = NULL]
        /\ inner' = Put(Inner(e, "pool", 0))
    /\ strong' = [strong EXCEPT !["pool"] = strong["pool"] + 1]
    /\ Return(t)
    /\ last_push' = <<NULL, Min(Vals)>>
    /\ UNCHANGED <<head, is_detached, hstate, teardowns, pools, drops, lends>>
    /\ UNCHANGED bview

\* Pool::lend, None: make_value() and Inner::new
LendMake(t, v) ==
    /\ pc[t] = "lend_loop"
    /\ ptr[t] = NULL
    /\ CanMake
    /\ LET e == Min(Unalloc) IN
        /\ mem' = [mem EXCEPT ![e] = "live"]
        /\ value' = [value EXCEPT ![e] = v]
        /\ next' = [next EXCEPT ![e] = NULL]
        /\ inner' = Put(Inner(e, "pool", 0))
    /\ strong' = [strong EXCEPT !["pool"] = strong["pool"] + 1]
    /\ Return(t)
    /\ UNCHANGED <<head, is_detached, hstate, teardowns, pools, drops>>
    /\ last_push' = <<NULL, Min(Vals)>>
    /\ UNCHANGED lends
    /\ UNCHANGED bview

\* mutant of NewDetached: the private PoolHead is built like the one of Pool::new
NewDetached_Attached(t, v) ==
    /\ pc[t] = "idle"
    /\ hstate["priv"] = "none"
    /\ CanMake
    /\ LET e == Min(Unalloc) IN
        /\ mem' = [mem EXCEPT ![e] = "live"]
        /\ value' = [value EXCEPT ![e] = v]
        /\ next' = [next EXCEPT ![e] = NULL]
        /\ inner' = Put(Inner(e, "priv", 0))
    /\ hstate' = [hstate EXCEPT !["priv"] = "live"]
    /\ is_detached' = [is_detached EXCEPT !["priv"] = FALSE]
    /\ head' = [head EXCEPT !["priv"] = NULL]
    /\ strong' = [strong EXCEPT !["priv"] = 1]
    /\ UNCHANGED <<teardowns, pools, drops, pc, ptr, nxt, box, ph>>
    /\ UNCHANGED <<lends, last_push>>
    /\ UNCHANGED bview

\* Unique::new_detached / Inner::new_detached: an Entry bound to a private
\* PoolHead built with is_detached = true
NewDetached(t, v) ==
    /\ pc[t] = "idle"
    /\ hstate["priv"] = "none"
    /\ CanMake
    /\ LET e == Min(Unalloc) IN
        /\ mem' = [mem EXCEPT ![e] = "live"]
        /\ value' = [value EXCEPT ![e] = v]
        /\ next' = [next EXCEPT ![e] = NULL]
        /\ inner' = Put(Inner(e, "priv", 0))
    /\ hstate' = [hstate EXCEPT !["priv"] = "live"]
    /\ is_detached' = [is_detached EXCEPT !["priv"] = TRUE]
    /\ head' = [head EXCEPT !["priv"] = NULL]
    /\ strong' = [strong EXCEPT !["priv"] = 1]
    /\ UNCHANGED <<teardowns, pools, drops, pc, ptr, nxt, box, ph>>
    /\ UNCHANGED <<lends, last_push>>
    /\ UNCHANGED bview

\* Unique::as_mut / deref_mut: the owner of a Unique writes the value
Mutate(t, i, v) ==
    /\ pc[t] = "idle"
    /\ i \in Alive
    /\ i.rc = 0
    /\ value[i.entry] # v
    /\ value' = [value EXCEPT ![i.entry] = v]
    /\ UNCHANGED <<head, is_detached, strong, hstate, teardowns, pools, mem, next,
                   drops, inner, pc, ptr, nxt, box, ph>>
    /\ UNCHANGED <<lends, last_push>>
    /\ UNCHANGED bview

\* Unique::freeze: the Inner moves into an Arc with count 1
Freeze(t, i) ==
    /\ pc[t] = "idle"
    /\ i \in Alive
    /\ i.rc = 0
    /\ inner' = Take(i) (+) SetToBag({Inner(i.entry, i.pool_head, 1)})
    /\ UNCHANGED <<head, is_detached, strong, hstate, teardowns, pools, mem, value,
                   next, drops, pc, ptr, nxt, box, ph>>
    /\ UNCHANGED <<lends, last_push>>
    /\ UNCHANGED bview

\* Shared::clone: the Arc<Inner> count goes up by one
SharedClone(t, i) ==
    /\ pc[t] = "idle"
    /\ i \in Alive
    /\ i.rc >= 1
    /\ i.rc < MaxClones
    /\ inner' = Take(i) (+) SetToBag({Inner(i.entry, i.pool_head, i.rc + 1)})
    /\ UNCHANGED <<head, is_detached, strong, hstate, teardowns, pools, mem, value,
                   next, drops, pc, ptr, nxt, box, ph>>
    /\ UNCHANGED <<lends, last_push>>
    /\ UNCHANGED bview

\* mutant of SharedDrop: every drop of a Shared runs Inner::drop
SharedDrop_RunsInnerDrop(t, i) ==
    /\ pc[t] = "idle"
    /\ i \in Alive
    /\ i.rc >= 2
    /\ inner' = Take(i) (+) SetToBag({Inner(i.entry, i.pool_head, i.rc - 1)})
    /\ box' = [box EXCEPT ![t] = i.entry]
    /\ ph' = [ph EXCEPT ![t] = i.pool_head]
    /\ ptr' = [ptr EXCEPT ![t] = head[i.pool_head]]
    /\ pc' = [pc EXCEPT ![t] = "drop_loop"]
    /\ UNCHANGED <<head, is_detached, strong, hstate, teardowns, pools, mem, value,
                   next, drops, nxt, lends, last_push>>
    /\ UNCHANGED bview

\* drop of a Shared that is not the last one of its Inner: the Arc<Inner> count
\* goes down by one and Inner::drop does not run
SharedDrop(t, i) ==
    /\ pc[t] = "idle"
    /\ i \in Alive
    /\ i.rc >= 2
    /\ inner' = Take(i) (+) SetToBag({Inner(i.entry, i.pool_head, i.rc - 1)})
    /\ UNCHANGED <<head, is_detached, strong, hstate, teardowns, pools, mem, value,
                   next, drops, pc, ptr, nxt, box, ph>>
    /\ UNCHANGED <<lends, last_push>>
    /\ UNCHANGED bview

\* drop of a Unique or of the last Shared of an Inner: Inner::drop begins with
\* self.entry.take() and the load of head
InnerDropStart(t, i) ==
    /\ pc[t] = "idle"
    /\ i \in Alive
    /\ i.rc <= 1
    /\ box' = [box EXCEPT ![t] = i.entry]
    /\ ph' = [ph EXCEPT ![t] = i.pool_head]
    /\ ptr' = [ptr EXCEPT ![t] = head[i.pool_head]]
    /\ inner' = Take(i)
    /\ pc' = [pc EXCEPT ![t] = "drop_loop"]
    /\ UNCHANGED <<head, is_detached, strong, hstate, teardowns, pools, mem, value,
                   next, drops, nxt>>
    /\ UNCHANGED <<lends, last_push>>
    /\ UNCHANGED bview

\* mutant of InnerDropLoop: is_detached is not checked, the Entry is always pushed
InnerDropLoop_NoDetachCheck(t) ==
    /\ pc[t] = "drop_loop"
    /\ next' = [next EXCEPT ![box[t]] = ptr[t]]
    /\ pc' = [pc EXCEPT ![t] = "drop_cas"]
    /\ UNCHANGED <<head, is_detached, strong, hstate, teardowns, pools, mem, value,
                   drops, inner, ptr, nxt, box, ph, lends, last_push>>
    /\ UNCHANGED bview

\* Inner::drop, top of the loop: the load of is_detached, then either the break
\* (entry_box dropped at the end of the scope) or entry_box.next = head
InnerDropLoop(t) ==
    /\ pc[t] = "drop_loop"
    /\ IF is_detached[ph[t]]
       THEN /\ drops' = [drops EXCEPT ![box[t]] = Min({drops[box[t]] + 1, 2})]
            /\ mem' = [mem EXCEPT ![box[t]] = "freed"]
            /\ pc' = [pc EXCEPT ![t] = "drop_arc"]
            /\ ptr' = [ptr EXCEPT ![t] = NULL]
            /\ box' = [box EXCEPT ![t] = NULL]
            /\ UNCHANGED next
       ELSE /\ next' = [next EXCEPT ![box[t]] = ptr[t]]
            /\ pc' = [pc EXCEPT ![t] = "drop_cas"]
            /\ UNCHANGED <<drops, mem, ptr, box>>
    /\ UNCHANGED <<head, is_detached, strong, hstate, teardowns, pools, value, inner,
                   nxt, ph>>
    /\ UNCHANGED <<lends, last_push>>
    /\ UNCHANGED bview

\* Inner::drop, the compare_exchange of head from head to entry
InnerDropCas(t) ==
    /\ pc[t] = "drop_cas"
    /\ IF head[ph[t]] = ptr[t]
       THEN /\ head' = [head EXCEPT ![ph[t]] = box[t]]
            /\ pc' = [pc EXCEPT ![t] = "drop_arc"]
            /\ ptr' = [ptr EXCEPT ![t] = NULL]
            /\ box' = [box EXCEPT ![t] = NULL]
            /\ last_push' = <<box[t], value[box[t]]>>
       ELSE /\ ptr' = [ptr EXCEPT ![t] = head[ph[t]]]
            /\ pc' = [pc EXCEPT ![t] = "drop_loop"]
            /\ UNCHANGED <<head, box, last_push>>
    /\ UNCHANGED <<is_detached, strong, hstate, teardowns, pools, mem, value, next,
                   drops, inner, nxt, ph>>
    /\ UNCHANGED lends
    /\ UNCHANGED bview

\* end of Inner::drop: the field pool_head (an Arc<PoolHead>) is dropped
InnerDropArc(t) ==
    /\ pc[t] = "drop_arc"
    /\ ReleaseArc(t, ph[t])
    /\ UNCHANGED <<head, is_detached, hstate, teardowns, pools, mem, value, next,
                   drops, inner>>
    /\ UNCHANGED <<lends, last_push>>
    /\ UNCHANGED bview

\* mutant of TeardownStart: the teardown does not store is_detached
TeardownStart_NoStore(t) ==
    /\ pc[t] = "td_start"
    /\ hstate' = [hstate EXCEPT ![ph[t]] = "dropping"]
    /\ teardowns' = [teardowns EXCEPT ![ph[t]] = Min({teardowns[ph[t]] + 1, 2})]
    /\ ptr' = [ptr EXCEPT ![t] = head[ph[t]]]
    /\ pc' = [pc EXCEPT ![t] = "td_loop"]
    /\ UNCHANGED <<head, is_detached, strong, pools, mem, value, next, drops, inner,
                   nxt, box, ph>>
    /\ UNCHANGED <<lends, last_push>>
    /\ UNCHANGED bview

\* PoolHead::drop: the store of is_detached and the load of head
TeardownStart(t) ==
    /\ pc[t] = "td_start"
    /\ is_detached' = [is_detached EXCEPT ![ph[t]] = TRUE]
    /\ hstate' = [hstate EXCEPT ![ph[t]] = "dropping"]
    /\ teardowns' = [teardowns EXCEPT ![ph[t]] = Min({teardowns[ph[t]] + 1, 2})]
    /\ ptr' = [ptr EXCEPT ![t] = head[ph[t]]]
    /\ pc' = [pc EXCEPT ![t] = "td_loop"]
    /\ UNCHANGED <<head, strong, pools, mem, value, next, drops, inner, nxt, box, ph>>
    /\ UNCHANGED <<lends, last_push>>
    /\ UNCHANGED bview

\* PoolHead::drop, one turn of the while loop: the read of entry_ptr.next (of a
\* freed Entry it is any pointer), the compare_exchange, and on Ok the drop of
\* the Box
TeardownPop(t) ==
    /\ pc[t] = "td_loop"
    /\ ptr[t] # NULL
    /\ \E next_head \in (IF mem[ptr[t]] = "live" THEN {next[ptr[t]]} ELSE Ptr) :
        IF head[ph[t]] = ptr[t]
        THEN /\ head' = [head EXCEPT ![ph[t]] = next_head]
             /\ drops' = [drops EXCEPT ![ptr[t]] = Min({drops[ptr[t]] + 1, 2})]
             /\ mem' = [mem EXCEPT ![ptr[t]] = "freed"]
             /\ ptr' = [ptr EXCEPT ![t] = next_head]
        ELSE /\ ptr' = [ptr EXCEPT ![t] = head[ph[t]]]
             /\ UNCHANGED <<head, drops, mem>>
    /\ UNCHANGED <<is_detached, strong, hstate, teardowns, pools, value, next, inner,
                   pc, nxt, box, ph>>
    /\ UNCHANGED <<lends, last_push>>
    /\ UNCHANGED bview

\* PoolHead::drop returns once the loop saw null; the PoolHead is freed
TeardownDone(t) ==
    /\ pc[t] = "td_loop"
    /\ ptr[t] = NULL
    /\ hstate' = [hstate EXCEPT ![ph[t]] = "freed"]
    /\ Return(t)
    /\ UNCHANGED <<head, is_detached, strong, teardowns, pools, mem, value, next,
                   drops, inner>>
    /\ UNCHANGED <<lends, last_push>>
    /\ UNCHANGED bview

\* One step of thread t; factories build values of V.
Step(t, V) ==
    \/ PoolClone(t)
    \/ PoolDrop(t)
    \/ LendStart(t)
    \/ LendRead(t)
    \/ LendCas(t)
    \/ LendOwn(t)
    \/ \E v \in V : LendMake(t, v)
    \/ \E v \in V : NewDetached(t, v)
    \/ \E i \in Alive : Freeze(t, i)
    \/ \E i \in Alive : SharedClone(t, i)
    \/ \E i \in Alive : SharedDrop(t, i)
    \/ \E i \in Alive : InnerDropStart(t, i)
    \/ InnerDropLoop(t)
    \/ InnerDropCas(t)
    \/ InnerDropArc(t)
    \/ TeardownStart(t)
    \/ TeardownPop(t)
    \/ TeardownDone(t)

\* No guard of any operation reads Entry.value, so the threads of Spec run with
\* one representative value; SeqSpec below runs with all of Vals and the writes
\* through a Unique.
Opaque == {Min(Vals)}

Next == \E t \in Threads : Step(t, Opaque)

Spec == Init /\ [][Next]_vars

\* ---- the free list and the owners of an Entry ----

\* The Entries reached from p by following next, up to the first null or repeat.
RECURSIVE Walk(_, _)
Walk(p, seen) ==
    IF p = NULL \/ p \in seen THEN seen ELSE Walk(next[p], seen \cup {p})

OnList(h) == Walk(head[h], {})

\* TRUE iff following next from p ends at null without visiting an Entry twice.
RECURSIVE EndsAtNull(_, _)
EndsAtNull(p, seen) ==
    IF p = NULL THEN TRUE
    ELSE IF p \in seen THEN FALSE
    ELSE EndsAtNull(next[p], seen \cup {p})

\* Number of Inner objects (Unique handles and Shared groups) that hold e.
RECURSIVE SumCopies(_)
SumCopies(S) ==
    IF S = {} THEN 0
    ELSE LET i == CHOOSE x \in S : TRUE IN CopiesIn(i, inner) + SumCopies(S \ {i})

Holders(e) == SumCopies({i \in Alive : i.entry = e})

\* Number of threads that own e between a handle and the list: popped by
\* lend and not yet wrapped, or taken by Inner::drop and not yet pushed.
InTransit(e) ==
    Cardinality({t \in Threads :
        \/ pc[t] = "lend_own" /\ ptr[t] = e
        \/ pc[t] \in {"drop_loop", "drop_cas"} /\ box[t] = e})

Listed(e) == IF \E h \in Heads : e \in OnList(h) THEN 1 ELSE 0

\* C1: under every interleaving of lend and release, each Entry that is
\* allocated is owned by exactly one of a live handle (a Unique, a Shared
\* group, or the lend / release that is moving it) and the free list; no Entry
\* is reachable from head while a handle holds it.
C1_ExclusiveOwner ==
    \A e \in Ent :
        mem[e] = "live" => Holders(e) + InTransit(e) + Listed(e) = 1

\* C2: no Entry is popped twice or pushed twice: handles alive at the same time
\* hold distinct Entries, and the list reachable from head has no Entry twice
\* (it ends at null without a cycle).
C2_NoDuplicate ==
    /\ \A e \in Ent : Holders(e) <= 1
    /\ EndsAtNull(head["pool"], {})

\* Every handle and every Pool is dropped and every drop has returned.
AllDropped ==
    /\ pools = 0
    /\ inner = EmptyBag
    /\ \A t \in Threads : pc[t] = "idle"
    /\ \A h \in Heads : hstate[h] \in {"none", "freed"}

\* C3: once every handle and every Pool clone is dropped, every value that was
\* built has been dropped exactly once (none leaked, none dropped twice).
C3_DropsEqualMakes ==
    AllDropped => \A e \in Ent : mem[e] # "unalloc" => drops[e] = 1

\* ---- the holders of a PoolHead ----

DropPcs == {"drop_loop", "drop_cas", "drop_arc"}
TdPcs   == {"td_start", "td_loop"}

\* Number of Inner objects bound to PoolHead h: the live ones and those whose
\* Inner::drop has not yet dropped its pool_head field.
InnersOf(h) ==
    SumCopies({i \in Alive : i.pool_head = h})
        + Cardinality({t \in Threads : pc[t] \in DropPcs /\ ph[t] = h})

\* Number of holders of PoolHead h: every Pool clone and every Inner bound to it.
HoldersOf(h) == (IF h = "pool" THEN pools ELSE 0) + InnersOf(h)

\* C4: a PoolHead is torn down only when its last holder (Pool clone or Inner)
\* is released: while any holder exists PoolHead::drop has not begun, also when
\* every Pool was dropped earlier; it runs once, begun by the thread that
\* released the last holder.
C4_HeadOutlivesHolders ==
    \A h \in Heads :
        /\ HoldersOf(h) > 0 => teardowns[h] = 0 /\ hstate[h] = "live"
        /\ teardowns[h] <= 1
        /\ hstate[h] # "none" /\ HoldersOf(h) = 0 =>
              IF teardowns[h] = 0
              THEN Cardinality({t \in Threads : pc[t] = "td_start" /\ ph[t] = h}) = 1
              ELSE \A t \in Threads : ~(pc[t] = "td_start" /\ ph[t] = h)

\* every Pool is dropped, a handle lent from it is alive, the PoolHead is live
C4_Witness ==
    /\ pools = 0
    /\ \E i \in Alive : i.pool_head = "pool"
    /\ hstate["pool"] = "live"
    /\ strong["pool"] = InnersOf("pool")

\* C5: dropping a Shared clone while another clone of the same Inner is alive
\* changes nothing but the Arc<Inner> count (no push, no value drop, no
\* Inner::drop begun); Inner::drop begins only on the drop of a Unique or of
\* the last clone, once, and takes that Inner's Entry.
C5_SharedRetention ==
    [][ /\ \A i \in Alive :
              (i.rc >= 2 /\ inner' = Take(i) (+) SetToBag({Inner(i.entry, i.pool_head, i.rc - 1)}))
                  => UNCHANGED <<head, next, mem, drops, value, strong, pc, box>>
        /\ \A t \in Threads :
              (pc[t] = "idle" /\ pc'[t] = "drop_loop")
                  => \E i \in Alive :
                        /\ i.rc <= 1
                        /\ inner' = Take(i)
                        /\ box'[t] = i.entry
      ]_vars

\* a Shared with two clones whose Entry is off the list with its value intact
C5_Witness ==
    \E i \in Alive :
        /\ i.rc >= 2
        /\ i.pool_head = "pool"
        /\ i.entry \notin OnList("pool")
        /\ drops[i.entry] = 0

\* ---- sequential use ----

\* One thread uses the pool alone, with every value of Vals and the writes a
\* Unique allows.
Solo == Min(Threads)

SeqNext ==
    \/ Step(Solo, Vals)
    \/ \E i \in Alive, v \in Vals : Mutate(Solo, i, v)

SeqSpec == Init /\ [][SeqNext]_vars

\* C6: in sequential use, a lend that follows a release while no other handle
\* of the pool is outstanding returns the Entry that was released, with the
\* value it had at the release, and builds nothing (the factory is not called).
C6_Recycle ==
    [][ \A t \in Threads :
            ( /\ pc[t] \in LendPcs
              /\ pc'[t] = "idle"
              /\ last_push[1] # NULL
              /\ InnersOf("pool") = 0 )
            => /\ pc[t] = "lend_own"
               /\ ptr[t] = last_push[1]
               /\ inner' = Put(Inner(last_push[1], "pool", 0))
               /\ value'[last_push[1]] = last_push[2]
               /\ mem' = mem
      ]_vars

\* the second lend has popped the Entry just released, whose value was written
\* through the Unique before the release
C6_Witness ==
    \E t \in Threads :
        /\ pc[t] = "lend_own"
        /\ ptr[t] = last_push[1]
        /\ last_push[2] = MaxVal
        /\ InnersOf("pool") = 0

\* ---- the factory ----

Built == {e \in Ent : mem[e] = "unalloc" /\ mem'[e] = "live"}

\* C7: a call of lend builds at most one Entry, and only in a step taken with
\* entry_ptr null (the head it loaded, or the head a failed CAS returned), a
\* step that takes nothing from the list and returns; the steps that pop and
\* wrap an Entry build nothing.
C7_FactoryOnlyOnNull ==
    [][ \A t \in Threads :
            (pc[t] \in LendPcs /\ pc'[t] # pc[t]) =>
                /\ Cardinality(Built) <= 1
                /\ Built # {} =>
                      /\ pc[t] = "lend_loop"
                      /\ ptr[t] = NULL
                      /\ pc'[t] = "idle"
                      /\ head' = head
                      /\ \E e \in Built : inner' = Put(Inner(e, "pool", 0))
                /\ (pc[t] = "lend_loop" /\ ptr[t] = NULL) => Built # {}
                /\ (pc[t] = "lend_cas" /\ pc'[t] = "lend_own") =>
                      /\ Built = {}
                      /\ ptr[t] # NULL
                      /\ head["pool"] = ptr[t]
                /\ (pc[t] = "lend_cas" /\ pc'[t] # "lend_own") =>
                      /\ Built = {}
                      /\ pc'[t] = "lend_loop"
                      /\ head' = head
                      /\ ptr'[t] = head["pool"]
                /\ pc[t] = "lend_own" =>
                      /\ Built = {}
                      /\ head' = head
                      /\ inner' = Put(Inner(ptr[t], "pool", 0))
      ]_vars

\* two lends each found nothing to pop and built an Entry
C7_Witness ==
    /\ head["pool"] = NULL
    /\ \A e \in Ent : mem[e] = "live" /\ Holders(e) = 1
    /\ \A i \in Alive : i.pool_head = "pool"

\* ---- release ----

\* C8: the release of a Unique or of the last Shared leaves its loop in one of
\* two ways: on a PoolHead that is not detached by a successful CAS, after which
\* the Entry is the head of the list and its value is not dropped; on a detached
\* PoolHead by dropping the value once and leaving the list alone.  A failed CAS
\* goes back to the top of the loop with the same Entry.
C8_ReleaseOutcome ==
    [][ \A t \in Threads :
            /\ (pc[t] = "drop_cas" /\ pc'[t] = "drop_arc") =>
                  /\ ~is_detached[ph[t]]
                  /\ head'[ph[t]] = box[t]
                  /\ box[t] \in Walk(head'[ph[t]], {})
                  /\ mem'[box[t]] = "live"
                  /\ drops' = drops
                  /\ mem' = mem
            /\ (pc[t] = "drop_loop" /\ pc'[t] = "drop_arc") =>
                  /\ is_detached[ph[t]]
                  /\ drops[box[t]] = 0
                  /\ drops' = [drops EXCEPT ![box[t]] = 1]
                  /\ mem'[box[t]] = "freed"
                  /\ head' = head
                  /\ next' = next
            /\ (pc[t] = "drop_loop" /\ pc'[t] = "drop_cas") => ~is_detached[ph[t]]
            /\ (pc[t] = "drop_cas" /\ pc'[t] # "drop_cas" /\ pc'[t] # "drop_arc") =>
                  /\ pc'[t] = "drop_loop"
                  /\ box'[t] = box[t]
                  /\ head' = head
                  /\ drops' = drops
            /\ (pc[t] \in {"drop_loop", "drop_cas"} /\ pc'[t] # pc[t]) =>
                  pc'[t] \in {"drop_loop", "drop_cas", "drop_arc"}
      ]_vars

\* both outcomes have happened: a detached handle dropped its value and a
\* handle of the live pool pushed its Entry
C8_Witness ==
    /\ hstate["pool"] = "live"
    /\ head["pool"] # NULL
    /\ drops[head["pool"]] = 0
    /\ \E e \in Ent : drops[e] = 1 /\ mem[e] = "freed"

\* ---- progress ----

\* The steps a thread takes inside an operation it has started; starting an
\* operation is the caller's choice and is not subject to fairness.
Progress(t) ==
    \/ LendRead(t)
    \/ LendCas(t)
    \/ LendOwn(t)
    \/ \E v \in Opaque : LendMake(t, v)
    \/ InnerDropLoop(t)
    \/ InnerDropCas(t)
    \/ InnerDropArc(t)
    \/ TeardownStart(t)
    \/ TeardownPop(t)
    \/ TeardownDone(t)

LiveStep(t) ==
    \/ PoolDrop(t)
    \/ LendStartCounted(t)
    \/ \E v \in Opaque : NewDetached(t, v)
    \/ \E i \in Alive : InnerDropStart(t, i)
    \/ Progress(t)

LiveNext == \E t \in Threads : LiveStep(t)

\* finitely many lends (MaxLends), hence finitely many releases, and weak
\* fairness for the steps of each thread
LiveSpec == Init /\ [][LiveNext]_vars /\ \A t \in Threads : WF_vars(Progress(t))

\* the storage bound of the model stops a lend that is about to return
AtBound(t) ==
    \/ pc[t] = "lend_own" /\ ~CanHold
    \/ pc[t] = "lend_loop" /\ ptr[t] = NULL /\ ~CanMake

\* C9: with finitely many lends and releases and weak fairness for each thread,
\* every lend returns (by wrapping the Entry it popped or the one it built) and
\* every release leaves its push-or-discard loop; every (re)load of head that an
\* operation compares against is the current head, a CAS fails only when head
\* differs from that expected value, and head changes only by a successful CAS
\* of an operation, so a failure means another operation succeeded in between.
C9_Progress ==
    /\ \A t \in Threads : (pc[t] \in LendPcs) ~> (pc[t] = "idle" \/ AtBound(t))
    /\ \A t \in Threads : (pc[t] \in {"drop_loop", "drop_cas"}) ~> (pc[t] \notin {"drop_loop", "drop_cas"})
    /\ [][ /\ \A t \in Threads :
                /\ (pc[t] = "lend_cas" /\ pc'[t] = "lend_loop") =>
                      head["pool"] # ptr[t] /\ ptr'[t] = head["pool"]
                /\ (pc[t] = "drop_cas" /\ pc'[t] = "drop_loop") =>
                      head[ph[t]] # ptr[t] /\ ptr'[t] = head[ph[t]]
                /\ (pc[t] = "idle" /\ pc'[t] = "lend_loop") => ptr'[t] = head["pool"]
                /\ (pc[t] = "idle" /\ pc'[t] = "drop_loop") => ptr'[t] = head[ph'[t]]
           /\ \A h \in Heads : head'[h] # head[h] =>
                \E u \in Threads :
                    /\ pc[u] \in {"lend_cas", "drop_cas", "td_loop"}
                    /\ pc[u] = "lend_cas" => h = "pool"
                    /\ pc[u] # "lend_cas" => h = ph[u]
                    /\ head[h] = ptr[u]
                    /\ pc'[u] # pc[u] \/ pc[u] = "td_loop"
      ]_vars

\* a lend returned after one of its CAS attempts had failed: a thread is back
\* at the top of the loop with an expected value it did not load at the start
C9_Witness ==
    \E t \in Threads :
        /\ pc[t] = "lend_loop"
        /\ ptr[t] # NULL
        /\ lends = MaxLends
        /\ \E u \in Threads : u # t /\ pc[u] \in {"drop_loop", "drop_cas"}

\* ---- a handle released on another thread while the Pool is dropped ----

\* the pool has built one Entry and no detached value exists: every handle is a
\* handle of that Entry, whichever thread lent it and whichever releases it
OneHandle ==
    /\ mem[Min(Ent)] # "unalloc"
    /\ \A e \in Ent \ {Min(Ent)} : mem[e] = "unalloc"
    /\ hstate["priv"] = "none"

\* C10: when the one handle of a pool is released on a thread while the Pool
\* object is dropped on another, the PoolHead teardown runs at most once and not
\* before the handle's release has given up its reference, and once when all is
\* dropped; the value is dropped at most once, and once when all is dropped; no
\* thread is inside lend or a release on a PoolHead that is not live, holds a
\* pointer to a freed Entry, or tears down a freed PoolHead.
C10_MoveAndDrop ==
    OneHandle =>
        /\ teardowns["pool"] <= 1
        /\ teardowns["pool"] = 1 => HoldersOf("pool") = 0
        /\ hstate["pool"] # "live" => HoldersOf("pool") = 0
        /\ \A e \in Ent : drops[e] <= 1
        /\ AllDropped => teardowns["pool"] = 1 /\ drops[Min(Ent)] = 1
        /\ \A i \in Alive : mem[i.entry] = "live" /\ hstate[i.pool_head] = "live"
        /\ \A t \in Threads :
            /\ pc[t] \in LendPcs => hstate["pool"] = "live"
            /\ (pc[t] \in LendPcs /\ ptr[t] # NULL) => mem[ptr[t]] = "live"
            /\ pc[t] \in DropPcs => hstate[ph[t]] = "live"
            /\ pc[t] \in {"drop_loop", "drop_cas"} => mem[box[t]] = "live"
            /\ pc[t] \in TdPcs => hstate[ph[t]] \in {"live", "dropping"}
            /\ (pc[t] = "td_loop" /\ ptr[t] # NULL) => mem[ptr[t]] = "live"

\* the Pool object is gone and a thread is in the middle of pushing the Entry
C10_Witness ==
    /\ OneHandle
    /\ pools = 0
    /\ \E t \in Threads : pc[t] = "drop_cas" /\ ph[t] = "pool" /\ strong["pool"] = 1

\* ---- bytes: BytesMut::freeze, BytesMut::freeze_range, Bytes ----

\* RangeBounds<usize>: start_bound() and end_bound()
Included(k) == [kind |-> "Included", k |-> k]
Excluded(k) == [kind |-> "Excluded", k |-> k]
Offsets == 0..(MaxLen + 1)
StartBounds == {Unbounded} \cup {Included(k) : k \in Offsets}
EndBounds == {Unbounded} \cup {Included(k) : k \in Offsets} \cup {Excluded(k) : k \in Offsets}

RECURSIVE SeqsUpTo(_)
SeqsUpTo(n) ==
    IF n = 0 THEN {<<>>}
    ELSE LET S == SeqsUpTo(n - 1) IN
         S \cup {Append(q, b) : q \in {x \in S : Len(x) = n - 1}, b \in 0..MaxByte}

Panic == [st |-> "panic"]

\* BytesMut::freeze: the whole buffer
FreezeBytes(v) == [st |-> "ok", offset_from |-> 0, offset_to |-> Len(v)]

\* BytesMut::freeze_range, match range.start_bound()
StartBound(b, sb) ==
    IF sb.kind = "Unbounded" THEN b
    ELSE IF sb.kind = "Included" /\ sb.k <= b.offset_to
         THEN [b EXCEPT !.offset_from = sb.k]
         ELSE Panic

\* BytesMut::freeze_range, match range.end_bound()
EndBound(b, eb) ==
    IF b.st = "panic" THEN b
    ELSE IF eb.kind = "Unbounded" THEN b
    ELSE IF eb.kind = "Included"
         THEN IF eb.k < b.offset_to THEN [b EXCEPT !.offset_to = eb.k + 1] ELSE Panic
         ELSE IF eb.k <= b.offset_to THEN [b EXCEPT !.offset_to = eb.k] ELSE Panic

FreezeRange(v, r) == EndBound(StartBound(FreezeBytes(v), r.start), r.end)

\* Bytes::as_ref: &self.inner[offset_from .. offset_to], which panics when the
\* slice index is out of order or out of range
AsRef(v, b) ==
    IF b.offset_from <= b.offset_to /\ b.offset_to <= Len(v)
    THEN [st |-> "ok", data |-> SubSeq(v, b.offset_from + 1, b.offset_to)]
    ELSE Panic

\* a BytesMut holding any buffer, and any range
RangeInit ==
    /\ PoolInit
    /\ vec \in SeqsUpTo(MaxLen)
    /\ range \in [start : StartBounds, end : EndBounds]
    /\ bytes = NoBytes
    /\ copy = NoBytes
    /\ read = NoRead

DoFreeze ==
    /\ bytes.st = "none"
    /\ bytes' = FreezeBytes(vec)
    /\ range' = [start |-> Unbounded, end |-> Unbounded]
    /\ UNCHANGED <<vars, lends, last_push, vec, copy, read>>

DoFreezeRange ==
    /\ bytes.st = "none"
    /\ bytes' = FreezeRange(vec, range)
    /\ UNCHANGED <<vars, lends, last_push, vec, range, copy, read>>

\* #[derive(Clone)] for Bytes
DoBytesClone ==
    /\ bytes.st = "ok"
    /\ copy.st = "none"
    /\ copy' = bytes
    /\ UNCHANGED <<vars, lends, last_push, vec, range, bytes, read>>

DoAsRef ==
    /\ read.st = "none"
    /\ \E b \in {bytes, copy} :
        /\ b.st = "ok"
        /\ read' = AsRef(vec, b)
    /\ UNCHANGED <<vars, lends, last_push, vec, range, bytes, copy>>

RangeNext == DoFreeze \/ DoFreezeRange \/ DoBytesClone \/ DoAsRef

RangeSpec == RangeInit /\ [][RangeNext]_allvars

\* the first index and the index after the last of the range, as the claim
\* reads them: unbounded start is 0, unbounded end is the length
Lo(r) == IF r.start.kind = "Unbounded" THEN 0 ELSE r.start.k
Hi(r, L) ==
    IF r.end.kind = "Unbounded" THEN L
    ELSE IF r.end.kind = "Included" THEN r.end.k + 1 ELSE r.end.k

Rejected(r, L) ==
    \/ r.start.kind = "Included" /\ r.start.k > L
    \/ r.end.kind = "Included" /\ r.end.k >= L
    \/ r.end.kind = "Excluded" /\ r.end.k > L

\* the bytes of v at the indices of the range that are in [0, Len(v))
Window(v, r) ==
    LET idx == {i \in 0..(Len(v) - 1) : Lo(r) <= i /\ i < Hi(r, Len(v))} IN
    IF idx = {} THEN <<>>
    ELSE SubSeq(v, Min(idx) + 1, Min(idx) + Cardinality(idx))

\* C11: freeze_range panics iff the start is inclusive k > L, or the end is
\* inclusive k >= L, or the end is exclusive k > L; otherwise the Bytes it
\* returns reads as the buffer bytes at the indices of the range within [0, L).
C11_FreezeRange ==
    /\ bytes.st # "none" =>
          /\ bytes.st = "panic" <=> Rejected(range, Len(vec))
          /\ bytes.st = "ok" => AsRef(vec, bytes) = [st |-> "ok", data |-> Window(vec, range)]
    /\ read.st # "none" => read = [st |-> "ok", data |-> Window(vec, range)]

\* C20: every Bytes from freeze or an accepted freeze_range, and its clone,
\* has offset_from <= offset_to <= length of the buffer, and reading it does
\* not fail.
C20_OffsetsInBuffer ==
    /\ \A b \in {bytes, copy} :
          b.st = "ok" => b.offset_from <= b.offset_to /\ b.offset_to <= Len(vec)
    /\ read.st # "panic"

\* ---- bytes: BytesPool ----

\* The value of an Entry of a BytesPool is a Vec<u8>, kept as its length and
\* its capacity; the value of an Entry that is not built yet is never read.
Vec(l, c) == [len |-> l, cap |-> c]
\* Vec::new
VecNew == Vec(0, 0)
\* Vec::clear
Clear(v) == [v EXCEPT !.len = 0]
\* Vec::push: a full Vec grows to a capacity of the allocator's choosing
Pushed(v) ==
    IF v.len < v.cap THEN {Vec(v.len + 1, v.cap)}
    ELSE {Vec(v.len + 1, c) : c \in (v.len + 1)..MaxCap}
\* Vec::shrink_to_fit: the capacity goes down towards the length
Shrunk(v) == {Vec(v.len, c) : c \in v.len..v.cap}

\* mutant of BytesLendOwn: the recycled buffer is handed out as it was released
BytesLendOwn_NoClear(t) ==
    LendOwn(t)

\* BytesPool::lend, when Pool::lend has popped an Entry: the Unique is built
\* and the buffer is cleared
BytesLendOwn(t) ==
    /\ pc[t] = "lend_own"
    /\ CanHold
    /\ next' = [next EXCEPT ![ptr[t]] = NULL]
    /\ value' = [value EXCEPT ![ptr[t]] = Clear(value[ptr[t]])]
    /\ inner' = Put(Inner(ptr[t], "pool", 0))
    /\ strong' = [strong EXCEPT !["pool"] = strong["pool"] + 1]
    /\ Return(t)
    /\ last_push' = <<NULL, Min(Vals)>>
    /\ UNCHANGED <<head, is_detached, hstate, teardowns, pools, mem, drops, lends>>
    /\ UNCHANGED bview

\* BytesPool::lend, when Pool::lend has found the list empty: Vec::new, cleared
BytesLendMake(t) ==
    LendMake(t, Clear(VecNew))

\* writing a byte through the BytesMut
BytesPush(t, i) ==
    /\ i.rc = 0
    /\ \E v \in Pushed(value[i.entry]) : Mutate(t, i, v)

\* BytesMut::freeze: shrink_to_fit, then Unique::freeze
BytesFreeze(t, i) ==
    /\ pc[t] = "idle"
    /\ i \in Alive
    /\ i.rc = 0
    /\ \E v \in Shrunk(value[i.entry]) : value' = [value EXCEPT ![i.entry] = v]
    /\ inner' = Take(i) (+) SetToBag({Inner(i.entry, i.pool_head, 1)})
    /\ UNCHANGED <<head, is_detached, strong, hstate, teardowns, pools, mem,
                   next, drops, pc, ptr, nxt, box, ph, lends, last_push>>
    /\ UNCHANGED bview

BytesStep(t) ==
    \/ PoolDrop(t)
    \/ LendStart(t)
    \/ LendRead(t)
    \/ LendCas(t)
    \/ BytesLendOwn(t)
    \/ BytesLendMake(t)
    \/ \E i \in Alive : BytesPush(t, i)
    \/ \E i \in Alive : BytesFreeze(t, i)
    \/ \E i \in Alive : SharedClone(t, i)
    \/ \E i \in Alive : SharedDrop(t, i)
    \/ \E i \in Alive : InnerDropStart(t, i)
    \/ InnerDropLoop(t)
    \/ InnerDropCas(t)
    \/ InnerDropArc(t)
    \/ TeardownStart(t)
    \/ TeardownPop(t)
    \/ TeardownDone(t)

\* one thread uses the BytesPool
BytesNext == BytesStep(Solo)

BytesSpec == Init /\ [][BytesNext]_vars

\* C12: every BytesMut that BytesPool::lend returns has length zero, built or
\* recycled; a recycled buffer comes back with the capacity it was released
\* with: between its release and the lend that returns it nothing changes the
\* buffer, and the lend changes only its length.
C12_LendClears ==
    [][ /\ \A t \in Threads :
            (pc[t] \in LendPcs /\ pc'[t] = "idle") =>
                \E e \in Ent :
                    /\ inner' = Put(Inner(e, "pool", 0))
                    /\ value'[e].len = 0
                    /\ pc[t] = "lend_own" =>
                          /\ e = ptr[t]
                          /\ value'[e].cap = value[e].cap
                          /\ last_push[1] = e => value'[e].cap = last_push[2].cap
        /\ \A e \in Ent :
            (mem[e] = "live" /\ value'[e] # value[e]) =>
                \/ \E i \in Alive : i.entry = e /\ i.rc = 0
                \/ \E t \in Threads : pc[t] = "lend_own" /\ ptr[t] = e /\ pc'[t] = "idle"
      ]_vars

\* a BytesMut of the pool is empty and has the capacity of an earlier use
C12_Witness ==
    \E i \in Alive :
        /\ i.pool_head = "pool"
        /\ i.rc = 0
        /\ value[i.entry] = Vec(0, MaxCap)

\* ---- clones of a Pool ----

\* C13: every Pool clone and every handle holds the one PoolHead: Pool::clone
\* adds a strong reference and changes neither the free list nor any Entry,
\* every lend (on whichever clone) starts from the head of that one list, and
\* every release of a handle of the pool pushes onto it.
C13_ClonesShareList ==
    /\ [](hstate["pool"] = "live" => strong["pool"] = pools + InnersOf("pool"))
    /\ [][ /\ pools' > pools =>
                /\ head' = head
                /\ next' = next
                /\ mem' = mem
                /\ value' = value
                /\ inner' = inner
                /\ hstate' = hstate
                /\ is_detached' = is_detached
                /\ strong' = [strong EXCEPT !["pool"] = strong["pool"] + 1]
           /\ \A t \in Threads :
                /\ (pc[t] = "idle" /\ pc'[t] = "lend_loop") => ptr'[t] = head'["pool"]
                /\ (pc[t] = "drop_cas" /\ pc'[t] = "drop_arc" /\ ph[t] = "pool") =>
                      head'["pool"] = box[t]
                /\ (pc[t] = "lend_cas" /\ pc'[t] = "lend_own") => ptr[t] = head["pool"]
      ]_vars

\* while two clones of the Pool exist, a lend has popped the Entry that the
\* last release pushed
C13_Witness ==
    /\ pools = MaxPools
    /\ \E t \in Threads : pc[t] = "lend_own" /\ ptr[t] = last_push[1]

\* ---- detached handles ----

\* C14: the PoolHead of Unique::new_detached is detached from its creation on
\* and its list stays empty; the Entry of a detached handle is on no free
\* list and not dropped while the handle lives; the release of the handle never
\* attempts a push and drops the value, once.
C14_DetachedNeverPooled ==
    /\ [](/\ hstate["priv"] # "none" => is_detached["priv"]
          /\ head["priv"] = NULL
          /\ \A i \in Alive : i.pool_head = "priv" =>
                /\ mem[i.entry] = "live"
                /\ drops[i.entry] = 0
                /\ i.entry \notin (OnList("pool") \cup OnList("priv"))
          /\ \A t \in Threads : (pc[t] \in DropPcs /\ ph[t] = "priv") => pc[t] # "drop_cas")
    /\ [][ \A t \in Threads :
            (pc[t] = "drop_loop" /\ ph[t] = "priv" /\ pc'[t] # pc[t]) =>
                /\ pc'[t] = "drop_arc"
                /\ drops[box[t]] = 0
                /\ drops'[box[t]] = 1
                /\ mem'[box[t]] = "freed"
                /\ head' = head
                /\ next' = next
      ]_vars

\* a detached value was frozen and its last handle released
C14_Witness ==
    /\ hstate["priv"] = "freed"
    /\ \E e \in Ent : drops[e] = 1 /\ mem[e] = "freed"
    /\ hstate["pool"] = "live"

\* ---- the detached flag ----

\* C15, as stated: for every PoolHead the flag is false until that PoolHead's
\* own teardown, so it is never true while a Pool or a handle holds the PoolHead.
C15_FalseWhileHeld ==
    \A h \in Heads :
        (hstate[h] # "none" /\ is_detached[h]) => (HoldersOf(h) = 0 /\ teardowns[h] = 1)

\* C15, amended: the flag of the PoolHead of Pool::new is false until that
\* PoolHead's teardown sets it, once, in the step before the first pop, and it
\* is never true while a Pool or a handle holds that PoolHead; the flag of the
\* PoolHead of Unique::new_detached is true from its creation on, while its
\* handle holds it; no flag returns to false, and a teardown pops only with
\* the flag true.
C15_DetachedFlag ==
    /\ [](is_detached["pool"] =>
            /\ HoldersOf("pool") = 0
            /\ teardowns["pool"] = 1
            /\ hstate["pool"] \in {"dropping", "freed"})
    /\ [](hstate["priv"] # "none" => is_detached["priv"])
    /\ [][ /\ \A h \in Heads : is_detached[h] => is_detached'[h]
           /\ (~is_detached["pool"] /\ is_detached'["pool"]) =>
                /\ \E t \in Threads :
                      pc[t] = "td_start" /\ ph[t] = "pool" /\ pc'[t] = "td_loop"
                /\ teardowns["pool"] = 0
                /\ head' = head
                /\ mem' = mem
                /\ drops' = drops
           /\ \A t \in Threads :
                (pc[t] = "td_loop" /\ (head' # head \/ mem' # mem)) => is_detached[ph[t]]
      ]_vars

\* the pool's teardown has set the flag and has an Entry to pop, while a
\* detached handle holds its own PoolHead with the flag true
C15_Witness ==
    /\ is_detached["pool"]
    /\ \E t \in Threads : pc[t] = "td_loop" /\ ph[t] = "pool" /\ ptr[t] # NULL
    /\ \E i \in Alive : i.pool_head = "priv" /\ is_detached["priv"]

\* ---- no push after detachment ----

\* C16: once is_detached of a PoolHead is true no push CAS on its head
\* succeeds: no release is between its read of the flag and its CAS when the
\* flag is true (the flag is not set while a release runs on that PoolHead),
\* a release that finds the flag set leaves by discarding its Entry, and the
\* head of a detached PoolHead changes only by a pop of its teardown.
C16_NoPushAfterDetach ==
    /\ [](\A t \in Threads : pc[t] = "drop_cas" => ~is_detached[ph[t]])
    /\ [][ \A h \in Heads :
            /\ (~is_detached[h] /\ is_detached'[h]) =>
                  \A t \in Threads : ~(pc[t] \in DropPcs /\ ph[t] = h)
            /\ is_detached[h] =>
                  /\ \A t \in Threads :
                        /\ ~(pc[t] = "drop_cas" /\ ph[t] = h /\ pc'[t] = "drop_arc")
                        /\ (pc[t] = "drop_loop" /\ ph[t] = h /\ pc'[t] # pc[t]) =>
                              /\ pc'[t] = "drop_arc"
                              /\ mem'[box[t]] = "freed"
                              /\ head' = head
                  /\ head'[h] # head[h] =>
                        \E t \in Threads :
                            pc[t] = "td_loop" /\ ph[t] = h /\ head[h] = ptr[t]
      ]_vars

\* the pool is detached and torn down with Entries on its list, and a release
\* that finds a flag set is about to discard
C16_Witness ==
    /\ is_detached["pool"]
    /\ teardowns["pool"] = 1
    /\ \E e \in Ent : drops[e] = 1
    /\ \E t \in Threads : pc[t] = "drop_loop" /\ is_detached[ph[t]]

\* ---- teardown ----

\* C17: the teardown runs with is_detached set; each of its pops takes a live
\* Entry that was not dropped before, drops it once, and moves the head and the
\* teardown to the successor of that Entry; it finishes only when it has
\* observed null, with the head null.
C17_TeardownDrains ==
    /\ [](\A h \in Heads : hstate[h] \in {"dropping", "freed"} => is_detached[h])
    /\ [](\A h \in Heads : hstate[h] = "freed" => head[h] = NULL)
    /\ [][ \A t \in Threads :
            (/\ pc[t] = "td_loop"
             /\ \/ pc'[t] # pc[t]
                \/ ptr'[t] # ptr[t]
                \/ ptr[t] # NULL /\ mem'[ptr[t]] # mem[ptr[t]]
                \/ ptr[t] # NULL /\ drops'[ptr[t]] # drops[ptr[t]]) =>
                IF pc'[t] = "td_loop"
                THEN /\ ptr[t] # NULL
                     /\ mem[ptr[t]] = "live"
                     /\ drops[ptr[t]] = 0
                     /\ drops' = [drops EXCEPT ![ptr[t]] = 1]
                     /\ mem' = [mem EXCEPT ![ptr[t]] = "freed"]
                     /\ head'[ph[t]] = next[ptr[t]]
                     /\ ptr'[t] = next[ptr[t]]
                ELSE /\ ptr[t] = NULL
                     /\ head[ph[t]] = NULL
                     /\ hstate'[ph[t]] = "freed"
      ]_vars

\* ---- the pop of Pool::lend ----

\* C18: when the compare_exchange of Pool::lend succeeds, the head it installs
\* is the successor that the popped Entry has at that moment.
C18_FreshSuccessor ==
    [][ \A t \in Threads :
            (pc[t] = "lend_cas" /\ pc'[t] = "lend_own") =>
                /\ nxt[t] = next[ptr[t]]
                /\ head'["pool"] = next[ptr[t]]
      ]_vars

\* C19: the next field of an Entry is read (by Pool::lend and by the teardown)
\* only while the Entry is on the free list, held by no handle and not being
\* pushed by a thread; it is written only by the thread that owns the Entry
\* alone, after its pop or before its push.
C19_NextOnlyOnList ==
    [][ \A t \in Threads :
            /\ (pc[t] = "lend_loop" /\ pc'[t] = "lend_cas") =>
                  /\ ptr[t] \in OnList("pool")
                  /\ Holders(ptr[t]) = 0
                  /\ InTransit(ptr[t]) = 0
            /\ (pc[t] = "td_loop" /\ ptr[t] # NULL /\ ptr'[t] # ptr[t]) =>
                  /\ mem[ptr[t]] = "live"
                  /\ ptr[t] \in OnList(ph[t])
                  /\ Holders(ptr[t]) = 0
            /\ (pc[t] = "lend_own" /\ pc'[t] = "idle") =>
                  /\ Holders(ptr[t]) = 0
                  /\ InTransit(ptr[t]) = 1
                  /\ ptr[t] \notin OnList("pool")
            /\ (pc[t] = "drop_loop" /\ pc'[t] = "drop_cas") =>
                  /\ Holders(box[t]) = 0
                  /\ InTransit(box[t]) = 1
                  /\ box[t] \notin OnList(ph[t])
      ]_vars

====
